---- MODULE Spec2Model ----
(***************************************************************************)
(* State-name cleaning of the UIDAI datasets:                              *)
(*   data_preprocessing_scripts/clean_state_names.py                       *)
(*                                                                         *)
(* Text is modelled as a sequence of one-character strings, so that        *)
(* strip / lower / split / join / replace are computed character by        *)
(* character as Python computes them.  A CSV file is modelled by the       *)
(* records pandas reads from it (header and rows; an empty cell is NaN).   *)
(***************************************************************************)
EXTENDS Integers, Sequences, FiniteSets, TLC

VARIABLES
    \* ---- one call of clean_state_name ----
    state_value,     \* the argument
    state_clean,     \* the local lookup key
    ret,             \* the returned value
    alias,           \* the table key the argument was spelled from (or NoAlias)
    \* ---- the script run ----
    argv,            \* sys.argv[1:]
    pc,              \* position of the run
    idx,             \* position of the batch loop in files_to_process
    input_file, output_file, backup_file,   \* locals of process_csv_file
    df, df_original,                        \* data frames of process_csv_file
    invalid_count, invalid_samples,         \* locals of clean_state_column
    exc,             \* exception raised by the current process_csv_file call
    fs,              \* the file system: path -> file
    fs0,             \* the file system when the current call started
    writes,          \* to_csv calls of the current call, in order
    attempted,       \* input files process_csv_file was called with, in order
    caught           \* exceptions handled by the batch loop, in order

nameVars == <<state_value, state_clean, ret, alias>>
runVars  == <<argv, pc, idx, input_file, output_file, backup_file, df,
              df_original, invalid_count, invalid_samples, exc, fs, fs0,
              writes, attempted, caught>>
vars     == <<nameVars, runVars>>

----------------------------------------------------------------------------
(* Bounds *)
MaxPad      == 1   \* longest run of extra whitespace put around / inside an alias
MaxRawLen   == 3   \* longest free-form argument of clean_state_name
MaxRows     == 3   \* most rows of a file in single-file mode
MaxBatchRows == 1  \* most rows of a file in full-batch mode

----------------------------------------------------------------------------
(* Python str primitives *)

LowerCase == <<"a","b","c","d","e","f","g","h","i","j","k","l","m",
               "n","o","p","q","r","s","t","u","v","w","x","y","z">>
UpperCase == <<"A","B","C","D","E","F","G","H","I","J","K","L","M",
               "N","O","P","Q","R","S","T","U","V","W","X","Y","Z">>
Whitespace == {" ", "\t"}

\* pandas' missing value (None / NaN): not a text
NaN == <<"NaN">>

isna(v) == v = NaN

\* str(state_value): the argument as text (file cells already are text)
str(v) == v

LowerChar(c) ==
    IF \E i \in 1..26 : UpperCase[i] = c
    THEN LowerCase[CHOOSE i \in 1..26 : UpperCase[i] = c]
    ELSE c

lower(s) == [i \in 1..Len(s) |-> LowerChar(s[i])]

RECURSIVE lstrip(_)
lstrip(s) ==
    IF s # <<>> /\ s[1] \in Whitespace THEN lstrip(Tail(s)) ELSE s

RECURSIVE rstrip(_)
rstrip(s) ==
    IF s # <<>> /\ s[Len(s)] \in Whitespace
    THEN rstrip(SubSeq(s, 1, Len(s) - 1)) ELSE s

strip(s) == rstrip(lstrip(s))

\* s.split(): the maximal runs of non-whitespace characters, in order
RECURSIVE split(_)
split(s) ==
    LET t == lstrip(s) IN
    IF t = <<>> THEN <<>>
    ELSE LET n == IF \E i \in 1..Len(t) : t[i] \in Whitespace
                  THEN (CHOOSE i \in 1..Len(t) :
                          /\ t[i] \in Whitespace
                          /\ \A j \in 1..(i-1) : t[j] \notin Whitespace) - 1
                  ELSE Len(t)
         IN <<SubSeq(t, 1, n)>> \o split(SubSeq(t, n + 1, Len(t)))

\* sep.join(words)
RECURSIVE join(_, _)
join(sep, words) ==
    IF words = <<>> THEN <<>>
    ELSE IF Len(words) = 1 THEN words[1]
    ELSE words[1] \o sep \o join(sep, Tail(words))

\* s.replace(old, new): every non-overlapping occurrence, left to right
RECURSIVE replace(_, _, _)
replace(s, old, new) ==
    IF Len(s) < Len(old) THEN s
    ELSE IF SubSeq(s, 1, Len(old)) = old
         THEN new \o replace(SubSeq(s, Len(old) + 1, Len(s)), old, new)
         ELSE <<s[1]>> \o replace(Tail(s), old, new)

----------------------------------------------------------------------------
(* The alias table *)

STATE_NAME_MAP ==
       (<<"a","n","d","a","m","a","n"," ","a","n","d"," ","n","i","c","o","b","a","r"," ","i","s","l","a","n","d","s">> :> <<"a","n","d","a","m","a","n"," ","a","n","d"," ","n","i","c","o","b","a","r"," ","i","s","l","a","n","d","s">>)
    @@ (<<"a","n","d","h","r","a"," ","p","r","a","d","e","s","h">> :> <<"a","n","d","h","r","a"," ","p","r","a","d","e","s","h">>)
    @@ (<<"a","r","u","n","a","c","h","a","l"," ","p","r","a","d","e","s","h">> :> <<"a","r","u","n","a","c","h","a","l"," ","p","r","a","d","e","s","h">>)
    @@ (<<"a","s","s","a","m">> :> <<"a","s","s","a","m">>)
    @@ (<<"b","i","h","a","r">> :> <<"b","i","h","a","r">>)
    @@ (<<"c","h","a","n","d","i","g","a","r","h">> :> <<"c","h","a","n","d","i","g","a","r","h">>)
    @@ (<<"c","h","h","a","t","t","i","s","g","a","r","h">> :> <<"c","h","h","a","t","t","i","s","g","a","r","h">>)
    @@ (<<"d","a","d","r","a"," ","a","n","d"," ","n","a","g","a","r"," ","h","a","v","e","l","i"," ","a","n","d"," ","d","a","m","a","n"," ","a","n","d"," ","d","i","u">> :> <<"d","a","d","r","a"," ","a","n","d"," ","n","a","g","a","r"," ","h","a","v","e","l","i"," ","a","n","d"," ","d","a","m","a","n"," ","a","n","d"," ","d","i","u">>)
    @@ (<<"d","e","l","h","i">> :> <<"d","e","l","h","i">>)
    @@ (<<"g","o","a">> :> <<"g","o","a">>)
    @@ (<<"g","u","j","a","r","a","t">> :> <<"g","u","j","a","r","a","t">>)
    @@ (<<"h","a","r","y","a","n","a">> :> <<"h","a","r","y","a","n","a">>)
    @@ (<<"h","i","m","a","c","h","a","l"," ","p","r","a","d","e","s","h">> :> <<"h","i","m","a","c","h","a","l"," ","p","r","a","d","e","s","h">>)
    @@ (<<"j","a","m","m","u"," ","a","n","d"," ","k","a","s","h","m","i","r">> :> <<"j","a","m","m","u"," ","a","n","d"," ","k","a","s","h","m","i","r">>)
    @@ (<<"j","h","a","r","k","h","a","n","d">> :> <<"j","h","a","r","k","h","a","n","d">>)
    @@ (<<"k","a","r","n","a","t","a","k","a">> :> <<"k","a","r","n","a","t","a","k","a">>)
    @@ (<<"k","e","r","a","l","a">> :> <<"k","e","r","a","l","a">>)
    @@ (<<"l","a","d","a","k","h">> :> <<"l","a","d","a","k","h">>)
    @@ (<<"l","a","k","s","h","a","d","w","e","e","p">> :> <<"l","a","k","s","h","a","d","w","e","e","p">>)
    @@ (<<"m","a","d","h","y","a"," ","p","r","a","d","e","s","h">> :> <<"m","a","d","h","y","a"," ","p","r","a","d","e","s","h">>)
    @@ (<<"m","a","h","a","r","a","s","h","t","r","a">> :> <<"m","a","h","a","r","a","s","h","t","r","a">>)
    @@ (<<"m","a","n","i","p","u","r">> :> <<"m","a","n","i","p","u","r">>)
    @@ (<<"m","e","g","h","a","l","a","y","a">> :> <<"m","e","g","h","a","l","a","y","a">>)
    @@ (<<"m","i","z","o","r","a","m">> :> <<"m","i","z","o","r","a","m">>)
    @@ (<<"n","a","g","a","l","a","n","d">> :> <<"n","a","g","a","l","a","n","d">>)
    @@ (<<"o","d","i","s","h","a">> :> <<"o","d","i","s","h","a">>)
    @@ (<<"p","u","d","u","c","h","e","r","r","y">> :> <<"p","u","d","u","c","h","e","r","r","y">>)
    @@ (<<"p","u","n","j","a","b">> :> <<"p","u","n","j","a","b">>)
    @@ (<<"r","a","j","a","s","t","h","a","n">> :> <<"r","a","j","a","s","t","h","a","n">>)
    @@ (<<"s","i","k","k","i","m">> :> <<"s","i","k","k","i","m">>)
    @@ (<<"t","a","m","i","l"," ","n","a","d","u">> :> <<"t","a","m","i","l"," ","n","a","d","u">>)
    @@ (<<"t","e","l","a","n","g","a","n","a">> :> <<"t","e","l","a","n","g","a","n","a">>)
    @@ (<<"t","r","i","p","u","r","a">> :> <<"t","r","i","p","u","r","a">>)
    @@ (<<"u","t","t","a","r"," ","p","r","a","d","e","s","h">> :> <<"u","t","t","a","r"," ","p","r","a","d","e","s","h">>)
    @@ (<<"u","t","t","a","r","a","k","h","a","n","d">> :> <<"u","t","t","a","r","a","k","h","a","n","d">>)
    @@ (<<"w","e","s","t"," ","b","e","n","g","a","l">> :> <<"w","e","s","t"," ","b","e","n","g","a","l">>)
    @@ (<<"a","n","d","a","m","a","n"," ","&"," ","n","i","c","o","b","a","r"," ","i","s","l","a","n","d","s">> :> <<"a","n","d","a","m","a","n"," ","a","n","d"," ","n","i","c","o","b","a","r"," ","i","s","l","a","n","d","s">>)
    @@ (<<"a","n","d","a","m","a","n"," ","&"," ","n","i","c","o","b","a","r">> :> <<"a","n","d","a","m","a","n"," ","a","n","d"," ","n","i","c","o","b","a","r"," ","i","s","l","a","n","d","s">>)
    @@ (<<"a","n","d","a","m","a","n"," ","a","n","d"," ","n","i","c","o","b","a","r">> :> <<"a","n","d","a","m","a","n"," ","a","n","d"," ","n","i","c","o","b","a","r"," ","i","s","l","a","n","d","s">>)
    @@ (<<"a"," ","&"," ","n"," ","i","s","l","a","n","d","s">> :> <<"a","n","d","a","m","a","n"," ","a","n","d"," ","n","i","c","o","b","a","r"," ","i","s","l","a","n","d","s">>)
    @@ (<<"a","&","n"," ","i","s","l","a","n","d","s">> :> <<"a","n","d","a","m","a","n"," ","a","n","d"," ","n","i","c","o","b","a","r"," ","i","s","l","a","n","d","s">>)
    @@ (<<"n","c","t"," ","o","f"," ","d","e","l","h","i">> :> <<"d","e","l","h","i">>)
    @@ (<<"n","e","w"," ","d","e","l","h","i">> :> <<"d","e","l","h","i">>)
    @@ (<<"n","a","t","i","o","n","a","l"," ","c","a","p","i","t","a","l"," ","t","e","r","r","i","t","o","r","y"," ","o","f"," ","d","e","l","h","i">> :> <<"d","e","l","h","i">>)
    @@ (<<"c","h","a","t","t","i","s","g","a","r","h">> :> <<"c","h","h","a","t","t","i","s","g","a","r","h">>)
    @@ (<<"c","h","h","a","t","i","s","g","a","r","h">> :> <<"c","h","h","a","t","t","i","s","g","a","r","h">>)
    @@ (<<"d","a","d","r","a"," ","a","n","d"," ","n","a","g","a","r"," ","h","a","v","e","l","i">> :> <<"d","a","d","r","a"," ","a","n","d"," ","n","a","g","a","r"," ","h","a","v","e","l","i"," ","a","n","d"," ","d","a","m","a","n"," ","a","n","d"," ","d","i","u">>)
    @@ (<<"d","a","d","r","a"," ","&"," ","n","a","g","a","r"," ","h","a","v","e","l","i">> :> <<"d","a","d","r","a"," ","a","n","d"," ","n","a","g","a","r"," ","h","a","v","e","l","i"," ","a","n","d"," ","d","a","m","a","n"," ","a","n","d"," ","d","i","u">>)
    @@ (<<"d","n","h">> :> <<"d","a","d","r","a"," ","a","n","d"," ","n","a","g","a","r"," ","h","a","v","e","l","i"," ","a","n","d"," ","d","a","m","a","n"," ","a","n","d"," ","d","i","u">>)
    @@ (<<"d","a","m","a","n"," ","a","n","d"," ","d","i","u">> :> <<"d","a","d","r","a"," ","a","n","d"," ","n","a","g","a","r"," ","h","a","v","e","l","i"," ","a","n","d"," ","d","a","m","a","n"," ","a","n","d"," ","d","i","u">>)
    @@ (<<"d","a","m","a","n"," ","&"," ","d","i","u">> :> <<"d","a","d","r","a"," ","a","n","d"," ","n","a","g","a","r"," ","h","a","v","e","l","i"," ","a","n","d"," ","d","a","m","a","n"," ","a","n","d"," ","d","i","u">>)
    @@ (<<"d","i","u">> :> <<"d","a","d","r","a"," ","a","n","d"," ","n","a","g","a","r"," ","h","a","v","e","l","i"," ","a","n","d"," ","d","a","m","a","n"," ","a","n","d"," ","d","i","u">>)
    @@ (<<"d","a","m","a","n">> :> <<"d","a","d","r","a"," ","a","n","d"," ","n","a","g","a","r"," ","h","a","v","e","l","i"," ","a","n","d"," ","d","a","m","a","n"," ","a","n","d"," ","d","i","u">>)
    @@ (<<"j","a","m","m","u"," ","&"," ","k","a","s","h","m","i","r">> :> <<"j","a","m","m","u"," ","a","n","d"," ","k","a","s","h","m","i","r">>)
    @@ (<<"j","&","k">> :> <<"j","a","m","m","u"," ","a","n","d"," ","k","a","s","h","m","i","r">>)
    @@ (<<"j"," ","&"," ","k">> :> <<"j","a","m","m","u"," ","a","n","d"," ","k","a","s","h","m","i","r">>)
    @@ (<<"o","r","i","s","s","a">> :> <<"o","d","i","s","h","a">>)
    @@ (<<"p","o","n","d","i","c","h","e","r","r","y">> :> <<"p","u","d","u","c","h","e","r","r","y">>)
    @@ (<<"p","o","n","d","y">> :> <<"p","u","d","u","c","h","e","r","r","y">>)
    @@ (<<"t","a","m","i","l","n","a","d","u">> :> <<"t","a","m","i","l"," ","n","a","d","u">>)
    @@ (<<"t","n">> :> <<"t","a","m","i","l"," ","n","a","d","u">>)
    @@ (<<"u","t","t","a","r","p","r","a","d","e","s","h">> :> <<"u","t","t","a","r"," ","p","r","a","d","e","s","h">>)
    @@ (<<"u","p">> :> <<"u","t","t","a","r"," ","p","r","a","d","e","s","h">>)
    @@ (<<"u",".","p",".">> :> <<"u","t","t","a","r"," ","p","r","a","d","e","s","h">>)
    @@ (<<"u","t","t","a","r","a","n","c","h","a","l">> :> <<"u","t","t","a","r","a","k","h","a","n","d">>)
    @@ (<<"w","e","s","t","b","e","n","g","a","l">> :> <<"w","e","s","t"," ","b","e","n","g","a","l">>)
    @@ (<<"w",".","b",".">> :> <<"w","e","s","t"," ","b","e","n","g","a","l">>)
    @@ (<<"w","b">> :> <<"w","e","s","t"," ","b","e","n","g","a","l">>)
    @@ (<<"m","a","d","h","y","a","p","r","a","d","e","s","h">> :> <<"m","a","d","h","y","a"," ","p","r","a","d","e","s","h">>)
    @@ (<<"m","p">> :> <<"m","a","d","h","y","a"," ","p","r","a","d","e","s","h">>)
    @@ (<<"m",".","p",".">> :> <<"m","a","d","h","y","a"," ","p","r","a","d","e","s","h">>)
    @@ (<<"h","i","m","a","c","h","a","l","p","r","a","d","e","s","h">> :> <<"h","i","m","a","c","h","a","l"," ","p","r","a","d","e","s","h">>)
    @@ (<<"h","p">> :> <<"h","i","m","a","c","h","a","l"," ","p","r","a","d","e","s","h">>)
    @@ (<<"h",".","p",".">> :> <<"h","i","m","a","c","h","a","l"," ","p","r","a","d","e","s","h">>)
    @@ (<<"a","r","u","n","a","c","h","a","l","p","r","a","d","e","s","h">> :> <<"a","r","u","n","a","c","h","a","l"," ","p","r","a","d","e","s","h">>)
    @@ (<<"a","n","d","h","r","a","p","r","a","d","e","s","h">> :> <<"a","n","d","h","r","a"," ","p","r","a","d","e","s","h">>)
    @@ (<<"a","p">> :> <<"a","n","d","h","r","a"," ","p","r","a","d","e","s","h">>)
    @@ (<<"l","a","c","c","a","d","i","v","e">> :> <<"l","a","k","s","h","a","d","w","e","e","p">>)
    @@ (<<"l","a","k","s","h","a","d","w","e","e","p"," ","i","s","l","a","n","d","s">> :> <<"l","a","k","s","h","a","d","w","e","e","p">>)

INVALID_STATE == <<"I","N","V","A","L","I","D","_","S","T","A","T","E">>

\* as normalize, but the words are joined without the blank
normalize_squeezed(v) ==
    CHOOSE r \in { replace(s3, <<"&">>, <<"a","n","d">>) :
                     s3 \in { join(<<>>, ws) :
                       ws \in { split(s2) :
                         s2 \in { lower(s1) :
                           s1 \in { strip(s0) : s0 \in { str(v) } } } } } } : TRUE

\* lines 155-161: the lookup key of a non-missing value.  Each assignment to
\* state_clean is one stage; a stage is bound to its value (the one element
\* of a singleton set) before the next stage uses it.
normalize(v) ==
    CHOOSE r \in { replace(s3, <<"&">>, <<"a","n","d">>) :
                     s3 \in { join(<<" ">>, ws) :
                       ws \in { split(s2) :
                         s2 \in { lower(s1) :
                           s1 \in { strip(s0) : s0 \in { str(v) } } } } } } : TRUE

\* as clean_state_name, but an unrecognized name is passed through as its key
clean_state_name_passthrough(v) ==
    IF isna(v) THEN INVALID_STATE
    ELSE CHOOSE r \in { IF key \in DOMAIN STATE_NAME_MAP
                         THEN STATE_NAME_MAP[key]
                         ELSE key : key \in {normalize(v)} } : TRUE

\* as clean_state_name, but the table is asked for the text as given and a
\* miss returns the tidied text
clean_state_name_rawlookup(v) ==
    IF isna(v) THEN INVALID_STATE
    ELSE IF str(v) \in DOMAIN STATE_NAME_MAP
         THEN STATE_NAME_MAP[str(v)]
         ELSE normalize(v)

\* lines 141-169
clean_state_name(v) ==
    IF isna(v) THEN INVALID_STATE
    ELSE CHOOSE r \in { IF key \in DOMAIN STATE_NAME_MAP
                         THEN STATE_NAME_MAP[key]
                         ELSE INVALID_STATE : key \in {normalize(v)} } : TRUE

----------------------------------------------------------------------------
(* One call of clean_state_name on a bounded set of arguments *)

NoAlias == <<>>
Unbound == <<"unbound">>

UpperChar(c) ==
    IF \E i \in 1..26 : LowerCase[i] = c
    THEN UpperCase[CHOOSE i \in 1..26 : LowerCase[i] = c]
    ELSE c

upper(s) == [i \in 1..Len(s) |-> UpperChar(s[i])]

capitalize(s) == IF s = <<>> THEN s ELSE <<UpperChar(s[1])>> \o Tail(s)

Casings(a) == {a, upper(a), capitalize(a)}

RECURSIVE SeqsUpTo(_, _)
SeqsUpTo(S, n) ==
    IF n = 0 THEN {<<>>}
    ELSE LET shorter == SeqsUpTo(S, n - 1)
         IN  shorter \cup {<<c>> \o s : c \in S, s \in {t \in shorter : Len(t) = n - 1}}

Pads == SeqsUpTo(Whitespace, MaxPad)

\* the spellings of table key a: any listed casing, padded with whitespace,
\* every inner blank widened by the same run of whitespace
Spellings(a) ==
    {lead \o replace(c, <<" ">>, wide \o <<" ">>) \o trail :
        c \in Casings(a), lead \in Pads, wide \in Pads, trail \in Pads}

FreeAlphabet == {"j", "k", "K", "&", " "}

FreeTexts ==
    SeqsUpTo(FreeAlphabet, MaxRawLen)
      \cup { <<"A","t","l","a","n","t","i","s">>, <<"M","a","r","s">>,
             INVALID_STATE, lower(INVALID_STATE),
             <<"j"," ","a","n","d"," ","k">>,
             <<"J","a","m","m","u","&","K","a","s","h","m","i","r">>,
             <<"4","2">> }

NameInit ==
    /\ \/ \E a \in DOMAIN STATE_NAME_MAP :
             /\ alias = a
             /\ state_value \in Spellings(a)
       \/ /\ alias = NoAlias
          /\ state_value \in FreeTexts \cup {NaN}
    /\ state_clean = Unbound
    /\ ret = Unbound
    /\ pc = "call"
    /\ argv = <<>>
    /\ idx = 0
    /\ input_file = <<>> /\ output_file = <<>> /\ backup_file = <<>>
    /\ df = [columns |-> <<>>, rows |-> <<>>]
    /\ df_original = [columns |-> <<>>, rows |-> <<>>]
    /\ invalid_count = 0 /\ invalid_samples = <<>>
    /\ exc = "None"
    /\ fs = <<>> /\ fs0 = <<>>
    /\ writes = <<>> /\ attempted = <<>> /\ caught = <<>>

CallCleanStateName ==
    /\ pc = "call"
    /\ state_clean' = IF isna(state_value) THEN Unbound ELSE normalize(state_value)
    /\ ret' = clean_state_name(state_value)
    /\ pc' = "returned"
    /\ UNCHANGED <<state_value, alias, argv, idx, input_file, output_file,
                   backup_file, df, df_original, invalid_count,
                   invalid_samples, exc, fs, fs0, writes, attempted, caught>>

NameNext == CallCleanStateName

NameSpec == NameInit /\ [][NameNext]_vars

----------------------------------------------------------------------------
(* Files, paths and data frames *)

column_name == "state"

NoPath == <<>>          \* output_file=None

NoFrame == [columns |-> <<>>, rows |-> <<>>]

Absent == [exists |-> FALSE, bad |-> FALSE, columns |-> <<>>, rows |-> <<>>]

\* pd.read_csv on a readable file: its header and rows
read_csv(f) == [columns |-> f.columns, rows |-> f.rows]

\* DataFrame.to_csv(path, index=False): the file that replaces the destination
to_csv(d) == [exists |-> TRUE, bad |-> FALSE, columns |-> d.columns, rows |-> d.rows]

HasColumn(d, c) == \E i \in 1..Len(d.columns) : d.columns[i] = c

\* as apply_clean, but the rows that clean to INVALID_STATE are dropped
apply_clean_dropinvalid(d) ==
    LET Keep(r) == r[column_name] # INVALID_STATE
    IN  [d EXCEPT !.rows = SelectSeq([i \in 1..Len(d.rows) |->
                               [d.rows[i] EXCEPT ![column_name] = clean_state_name(@)]],
                             Keep)]

\* df[column_name].apply(clean_state_name)
apply_clean(d) ==
    [d EXCEPT !.rows = [i \in 1..Len(d.rows) |->
                          [d.rows[i] EXCEPT ![column_name] = clean_state_name(@)]]]

\* df[column_name] as a sequence
Column(d) == [i \in 1..Len(d.rows) |-> d.rows[i][column_name]]

\* as IsInvalid, but the comparison is made with the lower-case spelling
IsInvalid_lower(v) == v = lower(INVALID_STATE)

IsInvalid(v) == v = INVALID_STATE

\* input_file.replace('.csv', '_BACKUP.csv')
BackupPath(p) ==
    replace(p, <<".","c","s","v">>, <<"_","B","A","C","K","U","P",".","c","s","v">>)

files_to_process == <<
    << <<"d","a","t","a","/","e","n","r","o","l","l","m","e","n","t",".","c","s","v">>,
       <<"d","a","t","a","/","e","n","r","o","l","l","m","e","n","t","_","c","l","e","a","n","e","d","_","s","t","a","t","e","s",".","c","s","v">> >>,
    << <<"d","a","t","a","/","d","e","m","o","g","r","a","p","h","i","c",".","c","s","v">>,
       <<"d","a","t","a","/","d","e","m","o","g","r","a","p","h","i","c","_","c","l","e","a","n","e","d","_","s","t","a","t","e","s",".","c","s","v">> >>,
    << <<"d","a","t","a","/","b","i","o","m","e","t","r","i","c",".","c","s","v">>,
       <<"d","a","t","a","/","b","i","o","m","e","t","r","i","c","_","c","l","e","a","n","e","d","_","s","t","a","t","e","s",".","c","s","v">> >> >>

----------------------------------------------------------------------------
(* The inputs of a run *)

SingleInputs == { <<"d",".","c","s","v">>,
                  <<"d",".","C","S","V">>,
                  <<"d",".","c","s","v",".","c","s","v">> }

ExplicitOutputs == { <<"o",".","c","s","v">> }

BatchInputs  == {files_to_process[i][1] : i \in 1..3}
BatchOutputs == {files_to_process[i][2] : i \in 1..3}

AllPaths == SingleInputs \cup {BackupPath(p) : p \in SingleInputs}
              \cup ExplicitOutputs \cup BatchInputs \cup BatchOutputs

Pincodes == <<"1", "2", "3", "4", "5">>

RawSamples == { NaN,
                <<"U",".","P",".">>,
                <<"T","N">>,
                <<"M","a","r","s">>,
                <<" ","J","&","K"," ">>,
                <<"d","e","l","h","i">> }

BatchSamples == { <<"T","N">>, <<"M","a","r","s">> }

\* files with the state column: row i carries its position in column pincode
StateFiles(values, n) ==
    { [exists |-> TRUE, bad |-> FALSE, columns |-> <<"state", "pincode">>,
       rows |-> [i \in 1..Len(vs) |-> [state |-> vs[i], pincode |-> <<Pincodes[i]>>]]] :
      vs \in SeqsUpTo(values, n) }

\* a file whose header has no state column
NoColumnFile ==
    [exists |-> TRUE, bad |-> FALSE, columns |-> <<"region", "pincode">>,
     rows |-> << [region |-> <<"T","N">>, pincode |-> <<"1">>] >>]

\* a file with a line of too many fields: pd.read_csv raises ParserError
\* (rows are its well-formed lines)
BadFile ==
    [exists |-> TRUE, bad |-> TRUE, columns |-> <<"state", "pincode">>,
     rows |-> << [state |-> <<"T","N">>, pincode |-> <<"1">>] >>]

\* what a destination may hold before the run
OldFile ==
    [exists |-> TRUE, bad |-> FALSE, columns |-> <<"state", "pincode">>,
     rows |-> << [state |-> <<"o","l","d">>, pincode |-> <<"9">>] >>]

SingleFiles == StateFiles(RawSamples, MaxRows) \cup {NoColumnFile, BadFile, Absent}
BatchFiles  == StateFiles(BatchSamples, MaxBatchRows) \cup {NoColumnFile, BadFile, Absent}

Init ==
    /\ \/ \E inp \in SingleInputs, f \in SingleFiles, old \in {Absent, OldFile} :
            /\ argv \in {<<inp>>} \cup {<<inp, out>> : out \in ExplicitOutputs \cup {inp}}
            /\ fs = [p \in AllPaths |->
                       IF p = inp THEN f
                       ELSE IF p \in ExplicitOutputs \cup {BackupPath(inp)} THEN old
                       ELSE Absent]
       \/ \E f1 \in BatchFiles, f2 \in BatchFiles, f3 \in BatchFiles, old \in {Absent, OldFile} :
            /\ argv = <<>>
            /\ fs = [p \in AllPaths |->
                       IF p = files_to_process[1][1] THEN f1
                       ELSE IF p = files_to_process[2][1] THEN f2
                       ELSE IF p = files_to_process[3][1] THEN f3
                       ELSE IF p \in BatchOutputs THEN old
                       ELSE Absent]
    /\ fs0 = fs
    /\ pc = "start"
    /\ idx = 0
    /\ input_file = NoPath /\ output_file = NoPath /\ backup_file = NoPath
    /\ df = NoFrame /\ df_original = NoFrame
    /\ invalid_count = 0 /\ invalid_samples = <<>>
    /\ exc = "None"
    /\ writes = <<>> /\ attempted = <<>> /\ caught = <<>>
    /\ state_value = Unbound /\ state_clean = Unbound /\ ret = Unbound
    /\ alias = NoAlias

----------------------------------------------------------------------------
(* The run *)

\* process_csv_file(inp, out) is entered
EnterCall(inp, out) ==
    /\ input_file' = inp
    /\ output_file' = out
    /\ backup_file' = NoPath
    /\ df' = NoFrame /\ df_original' = NoFrame
    /\ invalid_count' = 0 /\ invalid_samples' = <<>>
    /\ exc' = "None"
    /\ fs0' = fs
    /\ writes' = <<>>
    /\ attempted' = Append(attempted, inp)
    /\ pc' = "load"

Raise(e) ==
    /\ exc' = e
    /\ pc' = "raised"

\* lines 268-281: dispatch on the command line
Main ==
    /\ pc = "start"
    /\ IF Len(argv) > 0
       THEN /\ EnterCall(argv[1], IF Len(argv) > 1 THEN argv[2] ELSE NoPath)
            /\ UNCHANGED <<idx>>
       ELSE /\ idx' = 1
            /\ pc' = "loop"
            /\ UNCHANGED <<input_file, output_file, backup_file, df, df_original,
                           invalid_count, invalid_samples, exc, fs0, writes, attempted>>
    /\ UNCHANGED <<nameVars, argv, fs, caught>>

\* lines 283-285: the next entry of files_to_process, or the end of the loop
Loop ==
    /\ pc = "loop"
    /\ IF idx <= Len(files_to_process)
       THEN EnterCall(files_to_process[idx][1], files_to_process[idx][2])
       ELSE /\ pc' = "summary"
            /\ UNCHANGED <<input_file, output_file, backup_file, df, df_original,
                           invalid_count, invalid_samples, exc, fs0, writes, attempted>>
    /\ UNCHANGED <<nameVars, argv, idx, fs, caught>>

\* line 235: df = pd.read_csv(input_file)
Load ==
    /\ pc = "load"
    /\ LET f == fs[input_file] IN
       IF ~f.exists THEN Raise("FileNotFoundError") /\ UNCHANGED df
       ELSE IF f.bad THEN Raise("ParserError") /\ UNCHANGED df
       ELSE /\ df' = read_csv(f)
            /\ pc' = "clean"
            /\ UNCHANGED exc
    /\ UNCHANGED <<nameVars, argv, idx, input_file, output_file, backup_file,
                   df_original, invalid_count, invalid_samples, fs, fs0,
                   writes, attempted, caught>>

\* as CleanStateColumn, but a frame without the column is passed on untouched
CleanStateColumn_nocheck ==
    /\ pc = "clean"
    /\ IF ~HasColumn(df, column_name)
       THEN /\ pc' = "determine"
            /\ UNCHANGED <<df, invalid_count, invalid_samples, exc>>
       ELSE LET cleaned == apply_clean(df)
                invalid == SelectSeq(Column(cleaned), IsInvalid)
            IN  /\ df' = cleaned
                /\ invalid_count' = Len(invalid)
                /\ invalid_samples' =
                      IF Len(invalid) > 0
                      THEN SubSeq(invalid, 1, IF Len(invalid) < 10 THEN Len(invalid) ELSE 10)
                      ELSE invalid_samples
                /\ pc' = "determine"
                /\ UNCHANGED exc
    /\ UNCHANGED <<nameVars, argv, idx, input_file, output_file, backup_file,
                   df_original, fs, fs0, writes, attempted, caught>>

\* line 239: df = clean_state_column(df, state_column).  df is the one
\* DataFrame object made at line 235: line 193 assigns the cleaned column
\* into the object passed in, the samples of line 204 are read from it
\* afterwards, and line 217 returns that same object.
CleanStateColumn ==
    /\ pc = "clean"
    /\ IF ~HasColumn(df, column_name)
       THEN /\ Raise("KeyError")
            /\ UNCHANGED <<df, invalid_count, invalid_samples>>
       ELSE LET cleaned == apply_clean(df)
                invalid == SelectSeq(Column(cleaned), IsInvalid)
            IN  /\ df' = cleaned
                /\ invalid_count' = Len(invalid)
                /\ invalid_samples' =
                      IF Len(invalid) > 0
                      THEN SubSeq(invalid, 1, IF Len(invalid) < 10 THEN Len(invalid) ELSE 10)
                      ELSE invalid_samples
                /\ pc' = "determine"
                /\ UNCHANGED exc
    /\ UNCHANGED <<nameVars, argv, idx, input_file, output_file, backup_file,
                   df_original, fs, fs0, writes, attempted, caught>>

\* as DetermineOutput, but the backup is made whatever output_file is
DetermineOutput_alwaysbackup ==
    /\ pc = "determine"
    /\ backup_file' = BackupPath(input_file)
    /\ pc' = "backup_read"
    /\ UNCHANGED <<nameVars, argv, idx, input_file, output_file, df, df_original,
                   invalid_count, invalid_samples, exc, fs, fs0, writes,
                   attempted, caught>>

\* lines 242-244: if output_file is None, a backup is made first
DetermineOutput ==
    /\ pc = "determine"
    /\ IF output_file = NoPath
       THEN /\ backup_file' = BackupPath(input_file)
            /\ pc' = "backup_read"
       ELSE /\ pc' = "save"
            /\ UNCHANGED backup_file
    /\ UNCHANGED <<nameVars, argv, idx, input_file, output_file, df, df_original,
                   invalid_count, invalid_samples, exc, fs, fs0, writes,
                   attempted, caught>>

\* as BackupRead, but the backup is taken from the frame in memory
BackupRead_fromdf ==
    /\ pc = "backup_read"
    /\ df_original' = df
    /\ pc' = "backup_write"
    /\ UNCHANGED <<nameVars, argv, idx, input_file, output_file, backup_file, df,
                   invalid_count, invalid_samples, exc, fs, fs0, writes,
                   attempted, caught>>

\* line 246: df_original = pd.read_csv(input_file)
BackupRead ==
    /\ pc = "backup_read"
    /\ df_original' = read_csv(fs[input_file])
    /\ pc' = "backup_write"
    /\ UNCHANGED <<nameVars, argv, idx, input_file, output_file, backup_file, df,
                   invalid_count, invalid_samples, exc, fs, fs0, writes,
                   attempted, caught>>

\* lines 247-248: df_original.to_csv(backup_file); output_file = input_file
BackupWrite ==
    /\ pc = "backup_write"
    /\ fs' = [fs EXCEPT ![backup_file] = to_csv(df_original)]
    /\ writes' = Append(writes, [kind |-> "backup", path |-> backup_file])
    /\ output_file' = input_file
    /\ pc' = "save"
    /\ UNCHANGED <<nameVars, argv, idx, input_file, backup_file, df, df_original,
                   invalid_count, invalid_samples, exc, fs0, attempted, caught>>

\* as Save, but the cleaned frame always goes to the input path
Save_toinput ==
    /\ pc = "save"
    /\ fs' = [fs EXCEPT ![input_file] = to_csv(df)]
    /\ writes' = Append(writes, [kind |-> "output", path |-> input_file])
    /\ pc' = "return"
    /\ UNCHANGED <<nameVars, argv, idx, input_file, output_file, backup_file, df,
                   df_original, invalid_count, invalid_samples, exc, fs0,
                   attempted, caught>>

\* line 252: df.to_csv(output_file, index=False)
Save ==
    /\ pc = "save"
    /\ fs' = [fs EXCEPT ![output_file] = to_csv(df)]
    /\ writes' = Append(writes, [kind |-> "output", path |-> output_file])
    /\ pc' = "return"
    /\ UNCHANGED <<nameVars, argv, idx, input_file, output_file, backup_file, df,
                   df_original, invalid_count, invalid_samples, exc, fs0,
                   attempted, caught>>

\* lines 247, 252: to_csv cannot open its destination (nothing is written)
WriteError ==
    /\ pc \in {"backup_write", "save"}
    /\ Raise("OSError")
    /\ UNCHANGED <<nameVars, argv, idx, input_file, output_file, backup_file, df,
                   df_original, invalid_count, invalid_samples, fs, fs0, writes,
                   attempted, caught>>

\* line 255: return df, to line 272 (single file) or to the loop (line 283)
Return ==
    /\ pc = "return"
    /\ IF Len(argv) > 0
       THEN pc' = "done" /\ UNCHANGED idx
       ELSE pc' = "loop" /\ idx' = idx + 1
    /\ UNCHANGED <<nameVars, argv, input_file, output_file, backup_file, df,
                   df_original, invalid_count, invalid_samples, exc, fs, fs0,
                   writes, attempted, caught>>

\* line 272: nothing catches the exception of a single-file run
Uncaught ==
    /\ pc = "raised"
    /\ Len(argv) > 0
    /\ pc' = "crashed"
    /\ UNCHANGED <<nameVars, argv, idx, input_file, output_file, backup_file, df,
                   df_original, invalid_count, invalid_samples, exc, fs, fs0,
                   writes, attempted, caught>>

\* as Except, but only FileNotFoundError is handled; anything else ends the run
Except_fnfonly ==
    /\ pc = "raised"
    /\ Len(argv) = 0
    /\ IF exc = "FileNotFoundError"
       THEN /\ caught' = Append(caught, exc)
            /\ idx' = idx + 1
            /\ pc' = "loop"
       ELSE /\ pc' = "crashed"
            /\ UNCHANGED <<caught, idx>>
    /\ UNCHANGED <<nameVars, argv, input_file, output_file, backup_file, df,
                   df_original, invalid_count, invalid_samples, exc, fs, fs0,
                   writes, attempted>>

\* lines 286-289: except FileNotFoundError / except Exception, then the next file
Except ==
    /\ pc = "raised"
    /\ Len(argv) = 0
    /\ caught' = Append(caught, exc)
    /\ idx' = idx + 1
    /\ pc' = "loop"
    /\ UNCHANGED <<nameVars, argv, input_file, output_file, backup_file, df,
                   df_original, invalid_count, invalid_samples, exc, fs, fs0,
                   writes, attempted>>

\* lines 291-301: the final summary
Summary ==
    /\ pc = "summary"
    /\ pc' = "done"
    /\ UNCHANGED <<nameVars, argv, idx, input_file, output_file, backup_file, df,
                   df_original, invalid_count, invalid_samples, exc, fs, fs0,
                   writes, attempted, caught>>

\* the process is terminated between two statements
Interrupt ==
    /\ pc \notin {"done", "crashed", "interrupted", "call", "returned"}
    /\ pc' = "interrupted"
    /\ UNCHANGED <<nameVars, argv, idx, input_file, output_file, backup_file, df,
                   df_original, invalid_count, invalid_samples, exc, fs, fs0,
                   writes, attempted, caught>>

RunNext ==
    \/ Main
    \/ Loop
    \/ Load
    \/ CleanStateColumn
    \/ DetermineOutput
    \/ BackupRead
    \/ BackupWrite
    \/ Save
    \/ WriteError
    \/ Return
    \/ Uncaught
    \/ Except
    \/ Summary

Next == RunNext \/ Interrupt

Spec == Init /\ [][Next]_vars

\* full-batch mode (no arguments), not terminated from outside: a sequential
\* program always runs its next statement
BatchInit == Init /\ Len(argv) = 0

BatchNext ==
    \/ Main
    \/ Loop
    \/ Load
    \/ CleanStateColumn
    \/ DetermineOutput
    \/ Save
    \/ WriteError
    \/ Return
    \/ Except
    \/ Summary

BatchSpec == BatchInit /\ [][BatchNext]_vars /\ WF_vars(BatchNext)

----------------------------------------------------------------------------
(* Properties of clean_state_name (checked under NameSpec) *)

CanonicalNames == {STATE_NAME_MAP[k] : k \in DOMAIN STATE_NAME_MAP}

Letters == {LowerCase[i] : i \in 1..26} \cup {UpperCase[i] : i \in 1..26}

IsWord(w) == w # <<>> /\ \A i \in 1..Len(w) : w[i] \in Letters

\* C1: every spelling (any listed casing, any whitespace padding) of every
\* key a of STATE_NAME_MAP is cleaned to STATE_NAME_MAP[a].
C1_AliasResolves ==
    (pc = "returned" /\ alias # NoAlias) => ret = STATE_NAME_MAP[alias]

\* C2: every value of STATE_NAME_MAP is a key that maps to itself, and
\* clean_state_name returns every canonical name unchanged.
C2_SelfMapping ==
    /\ \A k \in DOMAIN STATE_NAME_MAP :
          /\ STATE_NAME_MAP[k] \in DOMAIN STATE_NAME_MAP
          /\ STATE_NAME_MAP[STATE_NAME_MAP[k]] = STATE_NAME_MAP[k]
    /\ (pc = "returned" /\ state_value \in CanonicalNames) => ret = state_value

C2_Witness ==
    /\ pc = "returned"
    /\ state_value \in CanonicalNames
    /\ Len(split(state_value)) > 1
    /\ ret = state_value

\* C3: for all words x and y the key of "x&y" is the key of "x and y".
C3_AmpersandConverges ==
    \A i \in 1..Len(state_value) :
        ( /\ pc = "returned"
          /\ state_value[i] = "&"
          /\ IsWord(SubSeq(state_value, 1, i - 1))
          /\ IsWord(SubSeq(state_value, i + 1, Len(state_value))) )
        => state_clean = normalize(SubSeq(state_value, 1, i - 1)
                                     \o <<" ","a","n","d"," ">>
                                     \o SubSeq(state_value, i + 1, Len(state_value)))

\* C4: a missing value, or a value whose key is not in the table, is cleaned
\* to INVALID_STATE; INVALID_STATE is no canonical name; every result is a
\* canonical name or INVALID_STATE.
C4_UnresolvedIsSentinel ==
    /\ INVALID_STATE \notin CanonicalNames
    /\ pc = "returned" => ret \in CanonicalNames \cup {INVALID_STATE}
    /\ ( /\ pc = "returned"
         /\ isna(state_value) \/ state_clean \notin DOMAIN STATE_NAME_MAP )
       => ret = INVALID_STATE

C4_Witness ==
    /\ pc = "returned"
    /\ ~isna(state_value)
    /\ state_clean \notin DOMAIN STATE_NAME_MAP
    /\ state_clean # <<>>
    /\ ret = INVALID_STATE

----------------------------------------------------------------------------
(* Properties of the run (checked under Spec; C9 under BatchSpec) *)

Overwrite == Len(argv) = 1      \* process_csv_file(input_file, None)

\* the output path the caller of process_csv_file gave
RequestedOutput ==
    IF Len(argv) > 1 THEN argv[2]
    ELSE IF Len(argv) = 0 /\ idx \in 1..Len(files_to_process)
         THEN files_to_process[idx][2]
         ELSE NoPath

\* the file holding the cleaned rows of file f
Cleaned(f) == to_csv(apply_clean(read_csv(f)))

NoOutputWrite == \A i \in 1..Len(writes) : writes[i].kind # "output"

\* C5: cleaning the cleaned frame again changes nothing, also in rows that
\* hold INVALID_STATE.
C5_CleanIdempotent ==
    pc \in {"determine", "backup_read", "backup_write", "save", "return"}
        => apply_clean(df) = df

C5_Witness ==
    /\ pc = "return"
    /\ df.rows # fs0[input_file].rows
    /\ \E i \in 1..Len(df.rows) : df.rows[i][column_name] = INVALID_STATE
    /\ \E i \in 1..Len(df.rows) : df.rows[i][column_name] \in CanonicalNames
    /\ apply_clean(df) = df

C7_OverwriteDecidesWrites ==
    pc = "return" =>
        IF Overwrite
        THEN /\ writes = << [kind |-> "backup", path |-> BackupPath(input_file)],
                            [kind |-> "output", path |-> input_file] >>
             /\ fs[input_file] = Cleaned(fs0[input_file])
        ELSE /\ writes = << [kind |-> "output", path |-> RequestedOutput] >>
             /\ fs[RequestedOutput] = Cleaned(fs0[input_file])
             /\ \A p \in AllPaths : p # RequestedOutput => fs[p] = fs0[p]

C7_Witness ==
    /\ pc = "return"
    /\ Len(argv) = 2
    /\ argv[2] # argv[1]
    /\ fs[argv[2]] # fs0[argv[2]]
    /\ fs[argv[1]] = fs0[argv[1]]
    /\ fs[argv[2]] # fs[argv[1]]

RunEndedEarly == pc \in {"raised", "crashed", "interrupted"} /\ NoOutputWrite

\* C8 (as stated): a call that fails or is interrupted before the output
\* write leaves every file as it was when the call started.
C8_NoSideEffects == RunEndedEarly => fs = fs0

\* C8 (amended): a call that fails or is interrupted before the output write
\* starts leaves every file as it was when the call started, except, in
\* overwrite mode, the backup file.
C8_OnlyBackupMayChange ==
    RunEndedEarly =>
        \A p \in AllPaths :
            (~Overwrite \/ p # BackupPath(input_file)) => fs[p] = fs0[p]

C8_Witness ==
    /\ RunEndedEarly
    /\ Overwrite
    /\ writes # <<>>
    /\ fs[BackupPath(input_file)] # fs0[BackupPath(input_file)]
    /\ fs[BackupPath(input_file)] = fs0[input_file]

BatchInputSeq == [i \in 1..Len(files_to_process) |-> files_to_process[i][1]]

\* C9: in full-batch mode no failure of a file ends the run: the files are
\* attempted one by one in the order enrollment, demographic, biometric,
\* none is skipped, and the run reaches its end (after the final summary)
\* with all three attempted.
C9_BatchNeverAborts ==
    /\ [](Len(argv) = 0 =>
            /\ pc # "crashed"
            /\ Len(attempted) <= Len(BatchInputSeq)
            /\ attempted = SubSeq(BatchInputSeq, 1, Len(attempted))
            /\ pc = "loop" => Len(attempted) = idx - 1
            /\ pc \in {"summary", "done"} => attempted = BatchInputSeq)
    /\ (Len(argv) = 0) ~> (pc = "done" /\ attempted = BatchInputSeq)

C9_Witness ==
    /\ Len(argv) = 0
    /\ pc = "done"
    /\ attempted = BatchInputSeq
    /\ caught = <<"FileNotFoundError", "KeyError", "ParserError">>

InCall == pc \in {"load", "clean", "determine", "backup_read", "backup_write",
                  "save", "return", "raised", "crashed"}

MissingInput == ~fs0[input_file].exists

MissingColumn ==
    /\ fs0[input_file].exists
    /\ ~fs0[input_file].bad
    /\ ~HasColumn(read_csv(fs0[input_file]), column_name)

\* C10: a call whose input file does not exist, or lacks the state column,
\* never gets past loading / cleaning, raises FileNotFoundError / KeyError
\* to its caller and writes no file.
C10_MissingInputOrColumn ==
    (InCall /\ (MissingInput \/ MissingColumn)) =>
        /\ pc \in {"load", "clean", "raised", "crashed"}
        /\ writes = <<>>
        /\ fs = fs0
        /\ pc \in {"raised", "crashed"} =>
              exc = IF MissingInput THEN "FileNotFoundError" ELSE "KeyError"

C10_Witness ==
    /\ pc = "raised"
    /\ MissingColumn
    /\ exc = "KeyError"
    /\ writes = <<>>
    /\ fs[input_file].exists

OriginalFrame == read_csv(fs0[input_file])

AfterClean == pc \in {"determine", "backup_read", "backup_write", "save", "return"}

\* C11: the written output has the header of the input and as many rows, in
\* the same order: row i is input row i with the state column replaced by
\* clean_state_name of the input value and every other column unchanged.
C11_RowsPreserved ==
    pc = "return" =>
        LET out == fs[output_file]
            inp == fs0[input_file]
        IN  /\ out.exists
            /\ out.columns = inp.columns
            /\ Len(out.rows) = Len(inp.rows)
            /\ \A i \in 1..Len(inp.rows) :
                  /\ out.rows[i][column_name] = clean_state_name(inp.rows[i][column_name])
                  /\ out.rows[i]["pincode"] = inp.rows[i]["pincode"]
                  /\ DOMAIN out.rows[i] = DOMAIN inp.rows[i]

C11_Witness ==
    /\ pc = "return"
    /\ Len(fs[output_file].rows) = 3
    /\ fs[output_file].rows[1][column_name] = INVALID_STATE
    /\ fs[output_file].rows[2][column_name] \in CanonicalNames
    /\ fs0[input_file].rows[2][column_name] \notin CanonicalNames
    /\ fs[output_file].rows[3]["pincode"] = <<"3">>

Unresolved(v) == clean_state_name(v) = INVALID_STATE

\* the raw values of the input, in row order, that do not resolve
FailedRaw == SelectSeq(Column(OriginalFrame), Unresolved)

\* C12: the sample of a cleaning run holds the raw input values that failed
\* resolution, the first ten in row order, and the count is their number
\* (rows U.P., TN, Mars: count 1 and sample Mars).
C12_SampleHoldsRawValues ==
    AfterClean =>
        /\ invalid_count = Len(FailedRaw)
        /\ invalid_samples =
              SubSeq(FailedRaw, 1, IF Len(FailedRaw) < 10 THEN Len(FailedRaw) ELSE 10)

\* C13: a malformed row does not fail the call: it is skipped and the
\* well-formed rows are processed and returned.
C13_MalformedRowsSkipped ==
    (InCall /\ fs0[input_file].exists /\ fs0[input_file].bad) =>
        /\ pc \in {"raised", "crashed"} => exc # "ParserError"
        /\ pc = "return" => Len(df.rows) = Len(fs0[input_file].rows)

\* C14: after clean_state_column has returned, the frame object that was
\* passed in still holds the raw values of the state column.
C14_InputNotMutated ==
    AfterClean => Column(df) = Column(OriginalFrame)

UnresolvedRaw(v) == isna(v) \/ normalize(v) \notin DOMAIN STATE_NAME_MAP

ReadableWithColumn ==
    /\ fs0[input_file].exists
    /\ ~fs0[input_file].bad
    /\ HasColumn(OriginalFrame, column_name)

\* C15: the unresolved count is the number of input rows whose raw value is
\* missing or not in the table; it is 0 exactly when every row was cleaned
\* to a canonical name; unresolved rows never end the call (a readable file
\* with the column fails only when a write fails) and no row is lost.
C15_EveryUnresolvedCounted ==
    /\ AfterClean =>
          /\ invalid_count =
                Cardinality({i \in 1..Len(OriginalFrame.rows) :
                               UnresolvedRaw(OriginalFrame.rows[i][column_name])})
          /\ (invalid_count = 0) <=>
                (\A i \in 1..Len(df.rows) : df.rows[i][column_name] \in CanonicalNames)
          /\ Len(df.rows) = Len(OriginalFrame.rows)
    /\ (InCall /\ ReadableWithColumn) =>
          (pc \in {"raised", "crashed"} => exc = "OSError")

C15_Witness ==
    /\ pc = "return"
    /\ Len(df.rows) = 3
    /\ invalid_count = 2
    /\ isna(OriginalFrame.rows[1][column_name])
    /\ df.rows[3][column_name] = INVALID_STATE
    /\ df.rows[2][column_name] \in CanonicalNames

\* C16: after a successful overwrite-mode call the backup path differs from
\* the input path and the backup file holds what the input held before.
C16_BackupBesideInput ==
    (Overwrite /\ pc = "return") =>
        /\ backup_file # input_file
        /\ fs[backup_file].exists
        /\ fs[backup_file] = fs0[input_file]

====
